---------------------------- MODULE Spec2Model ----------------------------
(***************************************************************************)
(* GlobalSimplexMesh<D> (src/src/mesh/GlobalSimplexMesh.h) for D = 2: a    *)
(* triangle mesh distributed over Procs MPI ranks.  The state is the       *)
(* members of the mesh object on every rank; the operations are the SPMD   *)
(* collective calls repartition(), repartitionByHash() and getLocalMesh(), *)
(* the latter split at its collective exchanges.                           *)
(***************************************************************************)
EXTENDS Integers, Sequences, FiniteSets, TLC

\* Number of MPI ranks of the communicator (MPI_Comm_size).
Procs == 2

\* Largest overlap getLocalMesh is called with.
MaxOverlap == 2

\* Largest number of elements of a mesh whose local view is built.
MaxElems == 4

\* Largest number of elements of a mesh that is repartitioned.
MaxPartitionElems == 3

\* Largest number of elements of a mesh with vertex data or a boundary mesh.
MaxDataElems == 2

\* Largest number of vertex data rows a rank is constructed with.
MaxVertexRows == 3

\* Largest number of edges of a boundary mesh.
MaxBoundaryEdges == 2

\* Simplex dimension (template parameter D).
D == 2

Ranks == 0 .. (Procs - 1)

\* The triangles a mesh is drawn from: a strip of four triangles
\* (0,1,2)-(0,1,3)-(1,3,4)-(3,4,5), and (0,1,4), a third witness of edge (0,1).
Pool ==
    { <<0, 1, 2>>, <<0, 1, 3>>, <<1, 3, 4>>, <<3, 4, 5>>, <<0, 1, 4>> }

\* The edges a boundary mesh is drawn from: three edges of the triangles, with
\* both owners among them, and (2,5), an edge of no triangle.
BoundaryPool == { <<0, 1>>, <<0, 2>>, <<1, 3>>, <<2, 5>> }

(***************************************************************************)
(* Sequences                                                               *)
(***************************************************************************)
Range(s) == { s[i] : i \in DOMAIN s }

RECURSIVE SumTo(_, _)
\* f[0] + ... + f[n-1]
SumTo(f, n) == IF n <= 0 THEN 0 ELSE SumTo(f, n - 1) + f[n - 1]

RECURSIVE SeqSum(_)
SeqSum(s) == IF s = << >> THEN 0 ELSE Head(s) + SeqSum(Tail(s))

RECURSIVE Flatten(_)
\* concatenation of a sequence of sequences
Flatten(ss) == IF ss = << >> THEN << >> ELSE Head(ss) \o Flatten(Tail(ss))

\* n copies of x
Repeat(x, n) == [i \in 1 .. n |-> x]

\* The function f itself, as an explicit table of its values.
Eager(f) == f @@ << >>

(***************************************************************************)
(* Simplex.h: a simplex is its sorted vertex ids; operator< is the         *)
(* lexicographic order of the sorted ids.                                  *)
(***************************************************************************)
RECURSIVE SimplexLess(_, _)
SimplexLess(a, b) ==
    IF a = << >> \/ b = << >> THEN FALSE
    ELSE IF Head(a) # Head(b) THEN Head(a) < Head(b)
    ELSE SimplexLess(Tail(a), Tail(b))

\* The elements of the set S of simplices in ascending order (the iteration
\* order of std::set / std::map, the result of std::sort + std::unique).
RECURSIVE SortedSeq(_)
SortedSeq(S) ==
    IF S = {} THEN << >>
    ELSE LET m == CHOOSE x \in S : \A y \in S : ~SimplexLess(y, x)
         IN  <<m>> \o SortedSeq(S \ {m})

\* Simplex<d>::downward<k>(): the (k+1)-subsets of the vertices, each sorted.
Downward(s, k) ==
    { SortedSeq({ <<v>> : v \in V })[1] \o
        Flatten([i \in 1 .. k |-> SortedSeq({ <<v>> : v \in V })[i + 1]]) :
      V \in { W \in SUBSET Range(s) : Cardinality(W) = k + 1 } }

\* SimplexHash: a commutative mix of the hashed vertex ids.
HashId(v) == (5 * v + 1) % 16
RECURSIVE SimplexHash(_)
SimplexHash(s) ==
    IF s = << >> THEN 0 ELSE (HashId(Head(s)) + SimplexHash(Tail(s))) % 16

(***************************************************************************)
(* parallel/CommPattern.h: AllToAllV.  sendcounts[p][q] is what rank p     *)
(* sends to rank q, recvcounts[p][q] what p receives from q.               *)
(***************************************************************************)
AllToAllV(sendcounts) ==
    [ sendcounts |-> Eager([p \in Ranks |-> Eager(sendcounts[p])]),
      recvcounts |-> Eager([p \in Ranks |-> Eager([q \in Ranks |-> sendcounts[q][p]])]) ]

AllToAllV2(sendcounts, recvcounts) ==
    [ sendcounts |-> sendcounts, recvcounts |-> recvcounts ]

\* AllToAllV::swap()
Swap(a2a) == [ sendcounts |-> a2a.recvcounts, recvcounts |-> a2a.sendcounts ]

\* The slice of rank p's send buffer that goes to rank q.
Segment(a2a, buf, p, q) ==
    SubSeq(buf[p], SumTo(a2a.sendcounts[p], q) + 1,
                   SumTo(a2a.sendcounts[p], q) + a2a.sendcounts[p][q])

\* AllToAllV::exchange(): on every rank the receive buffer, in rank order.
Exchange(a2a, buf) ==
    [q \in Ranks |-> Flatten([i \in 1 .. Procs |-> Segment(a2a, buf, i - 1, q)])]

\* AllToAllV::getSDispls() on rank p: the peer of every send-buffer index.
SDispls(a2a, p) ==
    Flatten([i \in 1 .. Procs |-> Repeat(i - 1, a2a.sendcounts[p][i - 1])])

\* AllToAllV::getRDispls() on rank p: the peer of every receive-buffer index.
RDispls(a2a, p) ==
    Flatten([i \in 1 .. Procs |-> Repeat(i - 1, a2a.recvcounts[p][i - 1])])

(***************************************************************************)
(* State                                                                   *)
(***************************************************************************)
VARIABLES
    elems,                \* elems_ on every rank
    hasElementData,       \* elementData != nullptr
    elementData,          \* the rows of elementData on every rank
    isPartitionedByHash,  \* the flag on every rank
    ndebug,               \* the build: TRUE when assert() is compiled out
    lastOp,               \* the call that returned last, whether it exchanged
    lastTarget,           \* the partition entry of every element in that call
    pc,                   \* where getLocalMesh is on all ranks
    overlap,              \* the argument of the running getLocalMesh
    ol,                   \* the loop variable of getGhostElements
    work,                 \* elems of getGhostElements on every rank
    domainBoundaryFaces,  \* the set of that name on every rank
    hasDomainBoundaryFaces, \* the flag of that name
    countRoundTrips,      \* calls of deleteDomainBoundaryFaces in this getLocalMesh
    fatal,                \* the ranks whose assertion failed
    localMesh,            \* the LocalSimplexMesh returned on every rank
    hasVertexData,        \* vertexData != nullptr
    vertexData,           \* the rows of vertexData on every rank
    vtxdist,              \* vtxdist (the same on every rank), empty without vertex data
    boundaryMesh          \* std::get<1>(boundaryMeshes): the mesh of edges

vertexVars == <<hasVertexData, vertexData, vtxdist>>
meshVars == <<elems, hasElementData, elementData, isPartitionedByHash, vertexVars>>
callVars == <<pc, overlap, ol, work, domainBoundaryFaces, hasDomainBoundaryFaces,
              countRoundTrips, fatal, localMesh>>
vars == <<elems, hasElementData, elementData, isPartitionedByHash, ndebug,
          lastOp, lastTarget, pc, overlap, ol, work, domainBoundaryFaces,
          hasDomainBoundaryFaces, countRoundTrips, fatal, localMesh,
          hasVertexData, vertexData, vtxdist, boundaryMesh>>

\* The row attached to element e at construction.
RowOf(e) == <<"row", e>>

\* GlobalSimplexMesh(): a mesh of at most n elements, every element on exactly
\* one rank, built as one of builds, with element data as data says; no
\* getLocalMesh is running.
InitUpTo(n, builds, data) ==
    /\ \E owner \in [Pool -> Ranks \cup {-1}] :
         /\ Cardinality({ e \in Pool : owner[e] # -1 }) <= n
         /\ elems = [r \in Ranks |-> SortedSeq({ e \in Pool : owner[e] = r })]
    /\ hasElementData \in data
    /\ elementData =
         [r \in Ranks |->
            IF hasElementData THEN [i \in DOMAIN elems[r] |-> RowOf(elems[r][i])]
            ELSE << >>]
    /\ isPartitionedByHash = [r \in Ranks |-> FALSE]
    /\ ndebug \in builds
    /\ lastOp = [op |-> "none", exchanged |-> FALSE]
    /\ lastTarget = << >>
    /\ pc = "idle"
    /\ overlap = 0
    /\ ol = 1
    /\ work = [r \in Ranks |-> << >>]
    /\ domainBoundaryFaces = [r \in Ranks |-> {}]
    /\ hasDomainBoundaryFaces = FALSE
    /\ countRoundTrips = 0
    /\ fatal = {}
    /\ localMesh = << >>

\* The row stored for the vertex with global id v.
VertexRow(v) == <<"vertex", v>>

\* makeSortedDistribution(sizes): the prefix sums [0, n_0, n_0 + n_1, ...]
SortedDistribution(sizes) == [p \in 0 .. Procs |-> SumTo(sizes, p)]

\* No vertex data is attached: vtxdist stays empty.
NoVertexData ==
    /\ hasVertexData = FALSE
    /\ vertexData = [r \in Ranks |-> << >>]
    /\ vtxdist = << >>

\* Vertex data is attached, at most n rows on a rank: rank r holds the rows of
\* the global vertex ids vtxdist[r] .. vtxdist[r + 1] - 1.
VertexDataUpTo(n) ==
    /\ hasVertexData = TRUE
    /\ \E sizes \in [Ranks -> 0 .. n] :
         /\ vtxdist = SortedDistribution(sizes)
         /\ vertexData =
              [r \in Ranks |->
                 [j \in 1 .. sizes[r] |-> VertexRow(SumTo(sizes, r) + j - 1)]]

\* No boundary mesh is set.
NoBoundaryMesh ==
    boundaryMesh = [ exists |-> FALSE, elems |-> [r \in Ranks |-> << >>],
                     hasElementData |-> FALSE,
                     elementData |-> [r \in Ranks |-> << >>],
                     isPartitionedByHash |-> [r \in Ranks |-> FALSE] ]

\* setBoundaryMesh<1>: a mesh of at most n edges with element data, every edge
\* on one rank, as its constructor left it.
BoundaryMeshUpTo(n) ==
    \E owner \in [BoundaryPool -> Ranks \cup {-1}] :
        /\ Cardinality({ e \in BoundaryPool : owner[e] # -1 }) <= n
        /\ boundaryMesh =
             [ exists |-> TRUE,
               elems |->
                 [r \in Ranks |-> SortedSeq({ e \in BoundaryPool : owner[e] = r })],
               hasElementData |-> TRUE,
               elementData |->
                 [r \in Ranks |->
                    [i \in 1 .. Cardinality({ e \in BoundaryPool : owner[e] = r }) |->
                        RowOf(SortedSeq({ e \in BoundaryPool : owner[e] = r })[i])]],
               isPartitionedByHash |-> [r \in Ranks |-> FALSE] ]

\* getLocalMesh does not read elementData.
Init == InitUpTo(MaxElems, BOOLEAN, {FALSE}) /\ NoVertexData /\ NoBoundaryMesh

\* A mesh with vertex data.
InitVertex == InitUpTo(MaxDataElems, {FALSE}, {FALSE}) /\ VertexDataUpTo(MaxVertexRows) /\ NoBoundaryMesh

\* A mesh with a boundary mesh of edges.
InitBoundary == InitUpTo(MaxDataElems, {FALSE}, {FALSE}) /\ NoVertexData /\ BoundaryMeshUpTo(MaxBoundaryEdges)

\* The assertions of doPartition hold for every partition vector with entries in
\* [0, procs): the two builds repartition alike.
InitPartition ==
    InitUpTo(MaxPartitionElems, {FALSE}, BOOLEAN) /\ NoVertexData /\ NoBoundaryMesh

(***************************************************************************)
(* repartition / repartitionByHash                                         *)
(***************************************************************************)
\* A faulty getPlex2Rank: the rule for vertices applied in every dimension.
Plex2RankByVertex(dd, plex) == plex[1] % Procs

\* SortedDistributionToRank(dist)(id): the rank whose range of dist holds id
SortedDistributionToRank(dist, id) ==
    CHOOSE r \in Ranks : dist[r] <= id /\ id < dist[r + 1]

\* getPlex2Rank<DD>(): the owner of a DD-simplex.  A vertex goes by vtxdist
\* when vertex data is attached, by its id otherwise.
Plex2Rank(dd, plex) ==
    IF dd = 0
    THEN IF DOMAIN vtxdist # {}
         THEN SortedDistributionToRank(vtxdist, plex[1])
         ELSE plex[1] % Procs
    ELSE SimplexHash(plex) % Procs

RECURSIVE OrdersOf(_)
\* All orders of the elements of the set S.
OrdersOf(S) ==
    IF S = {} THEN { << >> }
    ELSE UNION { { <<x>> \o t : t \in OrdersOf(S \ {x}) } : x \in S }

RECURSIVE SortedFrom(_, _)
\* All orders of the indices I with ascending entries of part.
SortedFrom(part, I) ==
    IF I = {} THEN { << >> }
    ELSE LET G == { i \in I : \A j \in I : part[i] <= part[j] }
         IN  { a \o b : a \in OrdersOf(G), b \in SortedFrom(part, I \ G) }

\* std::sort of the enumeration by partition entry: any order of the indices
\* with ascending entries (std::sort leaves the order of ties unspecified).
SortedEnumerations(part) == SortedFrom(part, DOMAIN part)

\* The sendcounts loop of doPartition.
SendCounts(part) ==
    [q \in Ranks |->
        Cardinality({ i \in DOMAIN part : part[i] <= q /\ (q = 0 \/ part[i] > q - 1) })]

\* std::numeric_limits<std::size_t>::max() as a local id: no row.  (Local ids
\* count from 1 here, so that 0 is free for it.)
UnsetLid == 0

\* The row that stands for "no data for this position".
Unset == <<"unset">>

\* A faulty MeshData::redistributed: the rows are shipped as they are stored,
\* the permutation is ignored.
RedistributedInPlace(data, lids, a2a) ==
    Exchange(a2a, Eager([r \in Ranks |->
                     Eager([i \in DOMAIN lids[r] |->
                         IF i \in DOMAIN data[r] THEN data[r][i] ELSE Unset])]))

\* MeshData::redistributed(permutation, a2a): the rows gathered in the order
\* of the permutation, the unset local id giving the unset row, then shipped.
Redistributed(data, lids, a2a) ==
    Exchange(a2a, Eager([r \in Ranks |->
                     Eager([i \in DOMAIN lids[r] |->
                         IF lids[r][i] = UnsetLid THEN Unset
                         ELSE data[r][lids[r][i]]])]))

\* A faulty elemsToSend: the elements in their stored order, the sorted
\* enumeration ignored.
ElemsToSendUnsorted(a2a, enumeration) ==
    Eager([r \in Ranks |->
        Eager([i \in 1 .. SumTo(a2a.sendcounts[r], Procs) |-> elems[r][i]])])

\* elemsToSend on all ranks: the elements in enumeration order.
ElemsToSend(a2a, enumeration) ==
    Eager([r \in Ranks |->
        Eager([i \in 1 .. SumTo(a2a.sendcounts[r], Procs) |->
                  elems[r][enumeration[r][i]]])])

\* Faulty exchanges of doPartition: the element data is shipped in its stored
\* order, not in the order of the enumeration.
DoExchangeDataInPlace(a2a, enumeration) ==
    /\ elems' = Exchange(a2a, ElemsToSend(a2a, enumeration))
    /\ elementData' =
         IF hasElementData
         THEN Redistributed(elementData,
                            [r \in Ranks |-> [i \in DOMAIN enumeration[r] |-> i]], a2a)
         ELSE elementData
    /\ UNCHANGED <<hasElementData, ndebug, callVars, vertexVars, boundaryMesh>>

\* The exchanges of doPartition under the pattern a2a.
DoExchange(a2a, enumeration) ==
    /\ elems' = Exchange(a2a, ElemsToSend(a2a, enumeration))
    /\ elementData' =
         IF hasElementData THEN Redistributed(elementData, enumeration, a2a)
         ELSE elementData
    /\ UNCHANGED <<hasElementData, ndebug, callVars, vertexVars, boundaryMesh>>

\* doPartition on all ranks, given every rank's partition and enumeration.
DoPartition(partition, enumeration) ==
    DoExchange(AllToAllV([r \in Ranks |-> SendCounts(partition[r])]), enumeration)

RECURSIVE EnumerationsUpTo(_, _)
\* All choices of one sorted enumeration for each of the ranks 0 .. n-1, as a
\* sequence (rank r at position r + 1).
EnumerationsUpTo(partition, n) ==
    IF n = 0 THEN { << >> }
    ELSE LET last == SortedEnumerations(partition[n - 1])
         IN  { Append(pre, en) : pre \in EnumerationsUpTo(partition, n - 1), en \in last }

\* All choices of one sorted enumeration per rank.
Enumerations(partition) ==
    { [r \in Ranks |-> ens[r + 1]] : ens \in EnumerationsUpTo(partition, Procs) }

AllElems == UNION { Range(elems[r]) : r \in Ranks }

\* A faulty repartition(): the flag is left as it is.
RepartitionKeepsFlag ==
    /\ pc \in {"idle", "done"}
    /\ \E target \in [UNION { Range(elems[r]) : r \in Ranks } -> Ranks] :
         LET partition ==
               Eager([r \in Ranks |->
                   Eager([i \in DOMAIN elems[r] |-> target[elems[r][i]]])])
         IN  \E enumeration \in Enumerations(partition) :
               /\ DoPartition(partition, enumeration)
               /\ UNCHANGED isPartitionedByHash
               /\ lastOp' = [op |-> "repartition", exchanged |-> TRUE]
               /\ lastTarget' = target

\* repartition(): the partitioner's answer is any vector with entries in
\* [0, procs).
Repartition ==
    /\ pc \in {"idle", "done"}
    /\ \E target \in [AllElems -> Ranks] :
         LET partition ==
               Eager([r \in Ranks |->
                   Eager([i \in DOMAIN elems[r] |-> target[elems[r][i]]])])
         IN  \E enumeration \in Enumerations(partition) :
               /\ DoPartition(partition, enumeration)
               /\ isPartitionedByHash' = [r \in Ranks |-> FALSE]
               /\ lastOp' = [op |-> "repartition", exchanged |-> TRUE]
               /\ lastTarget' = target

\* A faulty repartitionByHash: the flag is set but never tested, every call
\* partitions again.
RepartitionByHashUnflagged ==
    /\ pc \in {"idle", "done"}
    /\ LET partition ==
              Eager([r \in Ranks |->
                  Eager([i \in DOMAIN elems[r] |-> SimplexHash(elems[r][i]) % Procs])])
       IN  \E enumeration \in Enumerations(partition) :
             /\ DoPartition(partition, enumeration)
             /\ isPartitionedByHash' = [r \in Ranks |-> TRUE]
             /\ lastOp' = [op |-> "repartitionByHash", exchanged |-> TRUE]
             /\ lastTarget' = [e \in AllElems |-> SimplexHash(e) % Procs]

\* repartitionByHash().  All ranks run the same calls, so the flag is the same
\* on all of them.
RepartitionByHash ==
    /\ pc \in {"idle", "done"}
    /\ IF \A r \in Ranks : isPartitionedByHash[r]
         THEN /\ UNCHANGED <<meshVars, ndebug, callVars, boundaryMesh>>
              /\ lastOp' = [op |-> "repartitionByHash", exchanged |-> FALSE]
              /\ UNCHANGED lastTarget
         ELSE LET partition ==
                    Eager([r \in Ranks |->
                        Eager([i \in DOMAIN elems[r] |-> Plex2Rank(D, elems[r][i])])])
              IN  \E enumeration \in Enumerations(partition) :
                    /\ DoPartition(partition, enumeration)
                    /\ isPartitionedByHash' = [r \in Ranks |-> TRUE]
                    /\ lastOp' = [op |-> "repartitionByHash", exchanged |-> TRUE]
                    /\ lastTarget' = [e \in AllElems |-> Plex2Rank(D, e)]

(***************************************************************************)
(* getLocalMesh: getGhostElements                                          *)
(***************************************************************************)
\* The upward map of getBoundaryFaces before the cull: the multimap from the
\* (D-1)-faces of the elements E to the index of the element, as its entries.
UpMap(E) ==
    UNION { { <<f, elNo>> : f \in Downward(E[elNo], D - 1) } : elNo \in DOMAIN E }

\* up.count(face)
FaceCount(up, face) == Cardinality({ u \in up : u[1] = face })

\* assert(count <= 2) of deleteInternalFaces fails
CountAssertFails(up) == \E u \in up : FaceCount(up, u[1]) > 2

\* deleteInternalFaces: every face with more than one entry goes
DeleteInternalFaces(up) == { u \in up : FaceCount(up, u[1]) <= 1 }

\* The entries (face, element index) from their keys face \o <<index>>.
EntriesOf(keys) ==
    Eager([i \in DOMAIN keys |-> <<SubSeq(keys[i], 1, D), keys[i][D + 1]>>])

\* The entries S of an upward map in one order of iteration (the order of an
\* unordered_multimap is unspecified; what is computed from it below does not
\* depend on it): by face, then by element index.
SortedEntries(S) ==
    EntriesOf(SortedSeq({ u[1] \o <<u[2]>> : u \in S }))

\* The entries of up in send-buffer order: by owner of the face.
UpBuffer(up) ==
    Flatten([i \in 1 .. Procs |->
        SortedEntries({ u \in up : Plex2Rank(D - 1, u[1]) = i - 1 })])

\* counts[plex2rank(u.first)] for the entries of up
UpCounts(up) ==
    [q \in Ranks |-> Cardinality({ u \in up : Plex2Rank(D - 1, u[1]) = q })]

\* The send pattern of the upward maps of all ranks.
UpPattern(up) == AllToAllV([r \in Ranks |-> UpCounts(up[r])])

\* The faces of the entries buf
FacesIn(buf) == Eager([i \in DOMAIN buf |-> buf[i][1]])

\* The elements of E the entries buf name
ElemsIn(buf, E) == Eager([i \in DOMAIN buf |-> E[buf[i][2]]])

\* faces / boundaryFaces on all ranks
FacesBuffer(up) == Eager([r \in Ranks |-> FacesIn(UpBuffer(up[r]))])

\* boundaryElems on all ranks
ElemsBuffer(up, E) == Eager([r \in Ranks |-> ElemsIn(UpBuffer(up[r]), E[r])])

\* requestedFaceCount: how often each requested face was requested
RequestedFaceCount(requestedFaces) ==
    Eager([q \in Ranks |->
        Eager([i \in DOMAIN requestedFaces[q] |->
            Cardinality({ j \in DOMAIN requestedFaces[q] :
                            requestedFaces[q][j] = requestedFaces[q][i] })])])

\* figureOutWhichFacesAppearTwiceInDistributedMemory: faceCount on all ranks
FaceCountOf(a2a, faces) ==
    Exchange(Swap(a2a), RequestedFaceCount(Exchange(a2a, faces)))

\* assert(1 <= faceCount[fNo] && faceCount[fNo] <= 2) fails
FaceCountAssertFails(faceCount) ==
    \E i \in DOMAIN faceCount : faceCount[i] < 1 \/ faceCount[i] > 2

\* The faces deleteDomainBoundaryFaces returns: those counted once.
DomainFaces(faces, faceCount) ==
    { faces[i] : i \in { j \in DOMAIN faces : faceCount[j] = 1 } }

\* assert(range.first != range.second) fails for some request: all entries of
\* its face carry the requesting element.
RangeAssertFails(rf, re) ==
    \E i \in DOMAIN rf : \A j \in DOMAIN rf : rf[j] = rf[i] => re[j] = re[i]

\* The index the while loop stops at, the entries of the face being iterated
\* in the order given: the first whose element is not the requesting one.
FirstOther(order, re, i) ==
    order[CHOOSE k \in DOMAIN order :
            /\ re[order[k]] # re[i]
            /\ \A m \in 1 .. (k - 1) : re[order[m]] = re[i]]

\* The replies to the requests for face f, for every order equal_range may
\* iterate its entries in.
GroupReplies(rf, re, f) ==
    { [i \in { j \in DOMAIN rf : rf[j] = f } |-> re[FirstOther(o, re, i)]] :
        o \in OrdersOf({ j \in DOMAIN rf : rf[j] = f }) }

RECURSIVE OwnerReplies(_, _, _)
\* The reply buffers an owner may build for the faces F.
OwnerReplies(rf, re, F) ==
    IF F = {} THEN { << >> }
    ELSE { g @@ h : g \in GroupReplies(rf, re, CHOOSE f \in F : TRUE),
                    h \in OwnerReplies(rf, re, F \ {CHOOSE f \in F : TRUE}) }

RECURSIVE RepliesUpTo(_, _, _)
\* One reply buffer for each of the ranks 0 .. n-1 (rank r at position r + 1).
RepliesUpTo(rf, re, n) ==
    IF n = 0 THEN { << >> }
    ELSE { Append(pre, b) : pre \in RepliesUpTo(rf, re, n - 1),
                            b \in OwnerReplies(rf[n - 1], re[n - 1], Range(rf[n - 1])) }

\* An assertion failed on the ranks R: the run is over.
Abort(R) ==
    /\ pc' = "aborted"
    /\ fatal' = R
    /\ UNCHANGED <<meshVars, ndebug, lastOp, lastTarget, overlap, ol, work,
                   domainBoundaryFaces, hasDomainBoundaryFaces, countRoundTrips,
                   localMesh, boundaryMesh>>

\* Without assertions the loop has read past the entries of the face: the
\* behaviour is undefined from here on.
Undefined ==
    /\ pc' = "undefined"
    /\ UNCHANGED <<meshVars, ndebug, lastOp, lastTarget, overlap, ol, work,
                   domainBoundaryFaces, hasDomainBoundaryFaces, countRoundTrips,
                   fatal, localMesh, boundaryMesh>>

\* A faulty end of an iteration: the received elements are appended as they
\* came, duplicates included.
IntegrateAll(boundaryElems, dbf, trips) ==
    /\ work' = [r \in Ranks |-> work[r] \o boundaryElems[r]]
    /\ ol' = ol + 1
    /\ domainBoundaryFaces' = dbf
    /\ countRoundTrips' = trips
    /\ UNCHANGED <<meshVars, ndebug, lastOp, lastTarget, pc, overlap,
                   hasDomainBoundaryFaces, fatal, localMesh, boundaryMesh>>

\* A faulty end of an iteration: the received elements are inserted and the
\* whole list is sorted and made unique, the owned elements included.
IntegrateSorted(boundaryElems, dbf, trips) ==
    /\ work' = [r \in Ranks |-> SortedSeq(Range(work[r]) \cup Range(boundaryElems[r]))]
    /\ ol' = ol + 1
    /\ domainBoundaryFaces' = dbf
    /\ countRoundTrips' = trips
    /\ UNCHANGED <<meshVars, ndebug, lastOp, lastTarget, pc, overlap,
                   hasDomainBoundaryFaces, fatal, localMesh, boundaryMesh>>

\* The end of an iteration: the received elements, sorted and made unique, are
\* appended.
Integrate(boundaryElems, dbf, trips) ==
    /\ work' = [r \in Ranks |-> work[r] \o SortedSeq(Range(boundaryElems[r]))]
    /\ ol' = ol + 1
    /\ domainBoundaryFaces' = dbf
    /\ countRoundTrips' = trips
    /\ UNCHANGED <<meshVars, ndebug, lastOp, lastTarget, pc, overlap,
                   hasDomainBoundaryFaces, fatal, localMesh, boundaryMesh>>

\* The owners answer the requests (rf, re) that came under the pattern a2a.
GhostReply(a2a, rf, re, dbf, trips) ==
    IF \E q \in Ranks : RangeAssertFails(rf[q], re[q])
    THEN IF ndebug THEN Undefined
         ELSE Abort({ q \in Ranks : RangeAssertFails(rf[q], re[q]) })
    ELSE \E replies \in RepliesUpTo(rf, re, Procs) :
            Integrate(Exchange(Swap(a2a), [q \in Ranks |-> replies[q + 1]]), dbf, trips)

\* The exchange of boundaryFaces and boundaryElems under the pattern a2a.
GhostExchange(a2a, up, dbf, trips) ==
    GhostReply(a2a, Exchange(a2a, FacesBuffer(up)),
               Exchange(a2a, ElemsBuffer(up, work)), dbf, trips)

\* The request for the neighbours across the faces left in up.
GhostRequest(up, dbf, trips) == GhostExchange(UpPattern(up), up, dbf, trips)

\* deleteDomainBoundaryFaces, given the faces sent and the counts received.
GhostFilter(up, faces, faceCount) ==
    IF ~ndebug /\ \E r \in Ranks : FaceCountAssertFails(faceCount[r])
    THEN Abort({ r \in Ranks : FaceCountAssertFails(faceCount[r]) })
    ELSE GhostRequest(
           Eager([r \in Ranks |->
               { u \in up[r] : u[1] \notin DomainFaces(faces[r], faceCount[r]) }]),
           Eager([r \in Ranks |-> DomainFaces(faces[r], faceCount[r])]),
           countRoundTrips + 1)

\* The body of the loop after getBoundaryFaces returned up.
GhostDomain(up) ==
    IF hasDomainBoundaryFaces
    THEN GhostRequest(
           Eager([r \in Ranks |-> { u \in up[r] : u[1] \notin domainBoundaryFaces[r] }]),
           domainBoundaryFaces, countRoundTrips)
    ELSE GhostFilter(up, FacesBuffer(up), FaceCountOf(UpPattern(up), FacesBuffer(up)))

\* getBoundaryFaces, given the upward maps before the cull.
GhostBoundary(up) ==
    IF ~ndebug /\ \E r \in Ranks : CountAssertFails(up[r])
    THEN Abort({ r \in Ranks : CountAssertFails(up[r]) })
    ELSE GhostDomain(Eager([r \in Ranks |-> DeleteInternalFaces(up[r])]))

\* A faulty loop of getGhostElements: it counts from 0, one iteration more.
GhostLayerFromZero ==
    /\ pc = "ghost"
    /\ ol <= overlap + 1
    /\ GhostBoundary(Eager([r \in Ranks |-> UpMap(work[r])]))

\* One iteration of the loop of getGhostElements, on all ranks.
GhostLayer ==
    /\ pc = "ghost"
    /\ ol <= overlap
    /\ GhostBoundary(Eager([r \in Ranks |-> UpMap(work[r])]))

\* getLocalMesh(overlap) is called on all ranks.
GetLocalMesh ==
    /\ pc \in {"idle", "done"}
    /\ \E k \in 0 .. MaxOverlap : overlap' = k
    /\ pc' = "ghost"
    /\ ol' = 1
    /\ work' = elems
    /\ domainBoundaryFaces' = [r \in Ranks |-> {}]
    /\ hasDomainBoundaryFaces' = FALSE
    /\ countRoundTrips' = 0
    /\ fatal' = {}
    /\ localMesh' = << >>
    /\ UNCHANGED <<meshVars, ndebug, lastOp, lastTarget, boundaryMesh>>

(***************************************************************************)
(* getLocalMesh: getAllLocalFaces, getFaces                                *)
(***************************************************************************)
\* requiredFaces[q] of getFaces<dd>: the dd-faces of the elements E owned by q
RequiredFaces(E, dd, q) ==
    { f \in UNION { Downward(E[i], dd) : i \in DOMAIN E } : Plex2Rank(dd, f) = q }

\* Faulty faces of getFaces<dd>: one std::set for all owners, the faces in
\* simplex order and not by owner.
FacesOfUngrouped(E, dd) ==
    SortedSeq(UNION { Downward(E[i], dd) : i \in DOMAIN E })

\* faces of getFaces<dd>: the required faces, by owner, each std::set in order
FacesOf(E, dd) ==
    Flatten([i \in 1 .. Procs |-> SortedSeq(RequiredFaces(E, dd, i - 1))])

\* The send pattern of getFaces<dd> for the elements E of all ranks.
FacesPattern(E, dd) ==
    AllToAllV([r \in Ranks |->
        [q \in Ranks |-> Cardinality(RequiredFaces(E[r], dd, q))]])

\* A faulty offset: the inclusive scan, the own size not subtracted.
GidOffsetInclusive(sizes, q) == SumTo(sizes, q + 1)

\* MPI_Scan(MPI_SUM) of the sizes, minus the own size: the offset of rank q
GidOffset(sizes, q) == SumTo(sizes, q)

\* The position of x in the sequence s
IndexOf(s, x) == CHOOSE i \in DOMAIN s : s[i] = x

\* Faulty cGIDs: the requests are numbered, not the owned faces, so that a face
\* requested twice gets two ids.
GIDsFromRequests(rf, owned, gidOffset) ==
    Eager([i \in DOMAIN rf |-> gidOffset + i - 1])

\* The cGIDs an owner gives the faces rf: owned is ownedFacesToCGID in map
\* order, gidOffset the offset of the owner
GIDsFrom(rf, owned, gidOffset) ==
    Eager([i \in DOMAIN rf |-> gidOffset + IndexOf(owned, rf[i]) - 1])

\* ownedSize of getContiguousGIDs on all owners
OwnedSizes(requestedFaces) ==
    Eager([p \in Ranks |-> Cardinality(Range(requestedFaces[p]))])

\* cGIDs of getContiguousGIDs<dd> on the owners, before the reply
OwnerGIDs(dd, requestedFaces) ==
    IF dd = 0
    THEN Eager([q \in Ranks |->
            Eager([i \in DOMAIN requestedFaces[q] |-> requestedFaces[q][i][1]])])
    ELSE Eager([q \in Ranks |->
            GIDsFrom(requestedFaces[q], SortedSeq(Range(requestedFaces[q])),
                     GidOffset(OwnedSizes(requestedFaces), q))])

\* A faulty getContiguousGIDs<dd>: every owner fills cGIDs from the back, so
\* that its answers are in the reverse order of the requests.
ContiguousGIDsReversed(dd, requestedFaces, a2a) ==
    Exchange(a2a, Eager([q \in Ranks |->
        Eager([i \in DOMAIN requestedFaces[q] |->
            OwnerGIDs(dd, requestedFaces)[q][Len(requestedFaces[q]) + 1 - i]])]))

\* getContiguousGIDs<dd>: a2a is the swapped pattern
ContiguousGIDs(dd, requestedFaces, a2a) ==
    Exchange(a2a, OwnerGIDs(dd, requestedFaces))

\* A faulty sharedRanksInfo[face]: a peer is recorded only while the entry is
\* empty, the peer of the first request is all it holds.
SharedRanksInfoFirst(rf, peers, face) ==
    << peers[CHOOSE i \in DOMAIN rf :
                /\ rf[i] = face
                /\ \A j \in DOMAIN rf : rf[j] = face => i <= j] >>

\* A faulty sharedRanksInfo[face]: each request overwrites the entry, the peer
\* of the last request is all that stays.
SharedRanksInfoLast(rf, peers, face) ==
    << peers[CHOOSE i \in DOMAIN rf :
                /\ rf[i] = face
                /\ \A j \in DOMAIN rf : rf[j] = face => j <= i] >>

\* sharedRanksInfo[face] on an owner: the peers of the requests for the face,
\* in the order of getSDispls()
SharedRanksInfo(rf, peers, face) ==
    Flatten([i \in DOMAIN rf |-> IF rf[i] = face THEN <<peers[i]>> ELSE << >>])

\* A faulty sharedRanksInfo: the requesting peer is left out of what it is
\* sent.
SharedRanksByRequestRemote(rf, peers) ==
    Eager([i \in DOMAIN rf |->
        SelectSeq(SharedRanksInfo(rf, peers, rf[i]), LAMBDA p : p # peers[i])])

\* sharedRanksInfo[face] for every requested face of an owner, by request
SharedRanksByRequest(rf, peers) ==
    Eager([i \in DOMAIN rf |-> SharedRanksInfo(rf, peers, rf[i])])

\* sharedRanksInfo of all owners, by request
SharedRanksInfos(requestedFaces, a2a) ==
    Eager([q \in Ranks |-> SharedRanksByRequest(requestedFaces[q], SDispls(a2a, q))])

\* sharedRanksSendCount on all owners
SharedRanksSendCount(infos) ==
    Eager([q \in Ranks |-> Eager([i \in DOMAIN infos[q] |-> Len(infos[q][i])])])

\* requestedSharedRanks on all owners
RequestedSharedRanks(infos) == Eager([q \in Ranks |-> Flatten(infos[q])])

\* sendcounts[p] += count[i] over the (p, i) of displs
CountsByPeer(displs, count) ==
    [p \in Ranks |->
        SeqSum([i \in DOMAIN displs |-> IF displs[i] = p THEN count[i] ELSE 0])]

\* a2aSharedRanks
SharedRanksPattern(a2a, sendCount, recvCount) ==
    AllToAllV2(
        Eager([q \in Ranks |-> Eager(CountsByPeer(SDispls(a2a, q), sendCount[q]))]),
        Eager([r \in Ranks |-> Eager(CountsByPeer(RDispls(a2a, r), recvCount[r]))]))

\* LocalFaces<dd>: the faces, their contiguous GIDs, the attached rows (empty
\* when setMeshData was not called), and the shared ranks as the flat list
\* with the count of every face (Displacements).
LocalFaces(faces, cGIDs, meshData, sharedRanks, sharedRanksCount) ==
    [ faces |-> faces, contiguousGIDs |-> cGIDs, meshData |-> meshData,
      sharedRanks |-> sharedRanks, sharedRanksCount |-> sharedRanksCount ]

\* LocalFaces::getSharedRanks(i): the slice of face i (from 1)
SharedRanksAt(lf, i) ==
    SubSeq(lf.sharedRanks,
           SeqSum(SubSeq(lf.sharedRanksCount, 1, i - 1)) + 1,
           SeqSum(SubSeq(lf.sharedRanksCount, 1, i)))

\* getSharedRanks: the flat shared ranks received on all ranks
SharedRanksOf(infos, a2a, sendCount, recvCount) ==
    Exchange(SharedRanksPattern(a2a, sendCount, recvCount), RequestedSharedRanks(infos))

\* getSharedRanks from sharedRanksInfo and sharedRanksSendCount: the flat
\* list and the counts every rank receives
SharedRanksReply(infos, a2a, sendCount) ==
    [ sharedRanks |-> SharedRanksOf(infos, a2a, sendCount, Exchange(a2a, sendCount)),
      sharedRanksCount |-> Exchange(a2a, sendCount) ]

\* getSharedRanks(lf, requestedFaces, a2a) on all ranks
GetSharedRanks(requestedFaces, a2a) ==
    SharedRanksReply(SharedRanksInfos(requestedFaces, a2a), a2a,
                     SharedRanksSendCount(SharedRanksInfos(requestedFaces, a2a)))

\* The partition vector repartitionByHash() of the boundary mesh bm builds on
\* every rank: getPlex2Rank<D - 1> of that mesh, the hash of the edge.
BoundaryPartition(bm) ==
    Eager([r \in Ranks |->
        Eager([i \in DOMAIN bm.elems[r] |-> SimplexHash(bm.elems[r][i]) % Procs])])

\* doPartition of the boundary mesh bm under the pattern a2a.
BoundaryExchange(bm, a2a, enumeration) ==
    [ exists |-> TRUE,
      elems |->
        Exchange(a2a, Eager([r \in Ranks |->
            Eager([i \in DOMAIN enumeration[r] |-> bm.elems[r][enumeration[r][i]]])])),
      hasElementData |-> bm.hasElementData,
      elementData |->
        IF bm.hasElementData THEN Redistributed(bm.elementData, enumeration, a2a)
        ELSE bm.elementData,
      isPartitionedByHash |-> [r \in Ranks |-> TRUE] ]

\* The boundary mesh after doPartition(partition), for every order std::sort
\* may leave the ties in.
BoundaryPartitions(bm, partition) ==
    { BoundaryExchange(bm, AllToAllV([r \in Ranks |-> SendCounts(partition[r])]),
                       enumeration) : enumeration \in Enumerations(partition) }

\* A faulty getFaces<D - 1>: the boundary mesh is looked up as it is stored,
\* repartitionByHash() is not called.
BoundaryRepartitionsSkipped(bm) == { bm }

\* What boundaryMesh->repartitionByHash() in getFaces<D - 1> may leave of the
\* boundary mesh bm: bm itself when it is not called or returns at once.
BoundaryRepartitions(bm) ==
    IF bm.exists /\ bm.hasElementData /\ ~(\A r \in Ranks : bm.isPartitionedByHash[r])
    THEN BoundaryPartitions(bm, BoundaryPartition(bm))
    ELSE { bm }

\* map.find(face) on makeG2LMap() of the elements E: the local id of the face
\* (of its last copy: map[e] = local++ overwrites), the unset id when absent.
G2LMap(E, face) ==
    IF face \in Range(E)
    THEN CHOOSE i \in DOMAIN E : E[i] = face /\ \A j \in DOMAIN E : E[j] = face => j <= i
    ELSE UnsetLid

\* getVertexLID(plex) on rank q (from 1).  Its assertion holds for every vertex
\* getPlex2Rank<0> sent to q.
VertexLID(q, plex) == plex[1] - vtxdist[q] + 1

\* lids of getFaces<0>
VertexLIDs(requestedFaces) ==
    Eager([q \in Ranks |->
        Eager([i \in DOMAIN requestedFaces[q] |-> VertexLID(q, requestedFaces[q][i])])])

\* lids of getFaces<dd>, 0 < dd < D, from the boundary mesh bm
BoundaryLIDs(bm, requestedFaces) ==
    Eager([q \in Ranks |->
        Eager([i \in DOMAIN requestedFaces[q] |->
            G2LMap(bm.elems[q], requestedFaces[q][i])])])

\* The rows getFaces<dd> attaches with setMeshData on every rank, none when it
\* attaches nothing: bm is the boundary mesh after its repartitionByHash(),
\* a2a the swapped pattern.
FaceData(dd, bm, requestedFaces, a2a) ==
    IF dd = 0
    THEN IF hasVertexData
         THEN Redistributed(vertexData, VertexLIDs(requestedFaces), a2a)
         ELSE [r \in Ranks |-> << >>]
    ELSE IF bm.exists /\ bm.hasElementData
         THEN Redistributed(bm.elementData, BoundaryLIDs(bm, requestedFaces), a2a)
         ELSE [r \in Ranks |-> << >>]

\* The LocalFaces<dd> of all ranks from what getFaces<dd> sent and received.
FacesResult(faces, cGIDs, meshData, shared) ==
    Eager([r \in Ranks |->
        LocalFaces(faces[r], cGIDs[r], meshData[r], shared.sharedRanks[r],
                   shared.sharedRanksCount[r])])

\* getFaces<dd> after the exchange of the faces: a2a is the swapped pattern
FacesReply(dd, bm, faces, requestedFaces, a2a) ==
    FacesResult(faces, ContiguousGIDs(dd, requestedFaces, a2a),
                FaceData(dd, bm, requestedFaces, a2a),
                GetSharedRanks(requestedFaces, a2a))

\* getFaces<dd> from the faces to send and their pattern
FacesExchange(dd, bm, faces, a2a) ==
    FacesReply(dd, bm, faces, Exchange(a2a, faces), Swap(a2a))

\* getFaces<dd>(elems) on all ranks; bm is the boundary mesh after its
\* repartitionByHash().
GetFaces(E, dd, bm) ==
    FacesExchange(dd, bm, Eager([r \in Ranks |-> FacesOf(E[r], dd)]),
                  FacesPattern(E, dd))

\* cGIDs of getAllLocalFaces: numElements() ids from the scan offset
ElementGIDs(r) ==
    [j \in 1 .. Len(elems[r]) |->
        GidOffset([p \in Ranks |-> Len(elems[p])], r) + j - 1]

\* The tuple getAllLocalFaces returns on every rank, by dimension, from the
\* LocalFaces of the dimensions below D.
LocalMeshOf(lower) ==
    [r \in Ranks |->
        [dd \in 0 .. D |->
            IF dd = D THEN LocalFaces(work[r], ElementGIDs(r), << >>, << >>, << >>)
            ELSE lower[dd][r]]]

\* A vertex of the elements E lies outside [0, vtxdist[procs]): the vertex
\* distribution has no rank for it.
VertexOutOfRange(E) ==
    /\ DOMAIN vtxdist # {}
    /\ \E r \in Ranks : \E i \in DOMAIN E[r] : \E k \in DOMAIN E[r][i] :
         E[r][i][k] >= vtxdist[Procs]

\* getAllLocalFaces after the loop of getGhostElements; getLocalMesh returns.
\* With a vertex the vertex distribution has no rank for, the owner lookup of
\* getFaces<0> has no defined result.
GetAllLocalFaces ==
    /\ pc = "ghost"
    /\ ol > overlap
    /\ IF VertexOutOfRange(work)
         THEN /\ pc' = "undefined"
              /\ UNCHANGED <<localMesh, boundaryMesh>>
         ELSE \E bm \in BoundaryRepartitions(boundaryMesh) :
                /\ boundaryMesh' = bm
                /\ localMesh' =
                     LocalMeshOf(Eager([dd \in 0 .. (D - 1) |-> GetFaces(work, dd, bm)]))
                /\ pc' = "done"
    /\ UNCHANGED <<meshVars, ndebug, lastOp, lastTarget, overlap, ol, work,
                   domainBoundaryFaces, hasDomainBoundaryFaces, countRoundTrips,
                   fatal>>

NextMesh == GetLocalMesh \/ GhostLayer \/ GetAllLocalFaces

SpecMesh == Init /\ [][NextMesh]_vars

SpecVertex == InitVertex /\ [][NextMesh]_vars

SpecBoundary == InitBoundary /\ [][NextMesh]_vars

NextPartition == Repartition \/ RepartitionByHash

SpecPartition == InitPartition /\ [][NextPartition]_vars

Next == NextPartition \/ NextMesh

Spec == InitPartition /\ [][Next]_vars

(***************************************************************************)
(* Properties of repartition / repartitionByHash (SpecPartition)           *)
(***************************************************************************)
\* How often element e occurs in the element arrays E of all ranks.
Occurrences(E, e) ==
    SeqSum([i \in 1 .. Procs |->
        Cardinality({ j \in DOMAIN E[i - 1] : E[i - 1][j] = e })])

\* C1: after repartitionByHash() has returned on all ranks, every element e
\* held by rank r satisfies H_D(e) mod procs = r, whatever the distribution
\* of the elements was before (ranks without elements included).
C1_HashPlacement ==
    lastOp.op = "repartitionByHash" =>
        \A r \in Ranks : \A i \in DOMAIN elems[r] :
            SimplexHash(elems[r][i]) % Procs = r

\* repartitionByHash has exchanged elements and has left elements on two ranks.
C1_Witness ==
    /\ lastOp = [op |-> "repartitionByHash", exchanged |-> TRUE]
    /\ \E p, q \in Ranks : p # q /\ elems[p] # << >> /\ elems[q] # << >>

\* C2: repartition() and repartitionByHash() preserve the global multiset of
\* elements (every element occurs after the call as often as before it, none
\* lost, none duplicated), for every partition vector with entries in
\* [0, procs), and every element ends on the rank its partition entry names.
C2_Preserves ==
    [][ lastOp'.op \in {"repartition", "repartitionByHash"} =>
          /\ \A e \in Pool : Occurrences(elems', e) = Occurrences(elems, e)
          /\ \A r \in Ranks : \A i \in DOMAIN elems'[r] :
                lastTarget'[elems'[r][i]] = r ]_vars

\* repartition() has moved three elements, and has left two of them on one rank.
C2_Witness ==
    /\ lastOp = [op |-> "repartition", exchanged |-> TRUE]
    /\ Cardinality(DOMAIN lastTarget) = 3
    /\ \E r \in Ranks : Len(elems[r]) = 2

\* C3: repartitionByHash() is idempotent: a call made directly after another
\* one performs no exchange and leaves the element array, the element data
\* and the flag of every rank as the first call left them.
C3_Idempotent ==
    [][ (lastOp.op = "repartitionByHash" /\ lastOp'.op = "repartitionByHash") =>
          /\ ~lastOp'.exchanged
          /\ elems' = elems
          /\ elementData' = elementData
          /\ hasElementData' = hasElementData
          /\ isPartitionedByHash' = isPartitionedByHash ]_vars

\* A second repartitionByHash() has returned, on a mesh with element data and
\* elements on two ranks.
C3_Witness ==
    /\ lastOp = [op |-> "repartitionByHash", exchanged |-> FALSE]
    /\ hasElementData
    /\ \E p, q \in Ranks : p # q /\ Len(elems[p]) >= 1 /\ Len(elems[q]) >= 2

(***************************************************************************)
(* Properties of getLocalMesh (SpecMesh)                                   *)
(***************************************************************************)
\* The elements a and b share a (D-1)-face.
Adjacent(a, b) == a # b /\ Downward(a, D - 1) \cap Downward(b, D - 1) # {}

RECURSIVE Reach(_, _)
\* The elements of the mesh within k face-adjacency steps of the elements S.
Reach(S, k) ==
    IF k = 0 THEN S
    ELSE Reach(S \cup { e \in AllElems : \E o \in S : Adjacent(o, e) }, k - 1)

\* Every (D-1)-face has at most two witnessing elements, no element is held twice.
Manifold ==
    /\ \A e \in AllElems : Occurrences(elems, e) = 1
    /\ \A e \in AllElems : \A f \in Downward(e, D - 1) :
          Cardinality({ w \in AllElems : f \in Downward(w, D - 1) }) <= 2

\* No entry of the sequence s occurs twice.
NoDuplicates(s) == \A i, j \in DOMAIN s : s[i] = s[j] => i = j

\* The dd-faces rank r lists in its local view.
Listed(r, dd) == Range(localMesh[r][dd].faces)

\* C4: with overlap 0 the element list of the local view of every rank is
\* exactly the owned element array of the rank, and no ghost-discovery
\* exchange takes place (the loop of getGhostElements runs no iteration).
C4_OverlapZero ==
    overlap = 0 =>
        /\ pc \in {"idle", "ghost", "done"}
        /\ pc \in {"ghost", "done"} =>
              (ol = 1 /\ countRoundTrips = 0 /\ work = elems)
        /\ pc = "done" => \A r \in Ranks : localMesh[r][D].faces = elems[r]

\* getLocalMesh(0) has returned on a mesh with elements on two ranks.
C4_Witness ==
    /\ pc = "done"
    /\ overlap = 0
    /\ \E p, q \in Ranks : p # q /\ Len(elems[p]) >= 1 /\ Len(elems[q]) >= 2
    /\ \A r \in Ranks : localMesh[r][D].faces = elems[r]

\* C5: for every dimension d in [0, D), over the local face lists of all ranks,
\* two entries carry the same GID if and only if they are the same face.
C5_GIDs ==
    pc = "done" =>
        \A dd \in 0 .. (D - 1) : \A p, q \in Ranks :
            /\ Len(localMesh[p][dd].contiguousGIDs) = Len(localMesh[p][dd].faces)
            /\ \A i \in DOMAIN localMesh[p][dd].faces :
               \A j \in DOMAIN localMesh[q][dd].faces :
                  (localMesh[p][dd].contiguousGIDs[i] = localMesh[q][dd].contiguousGIDs[j])
                    <=> (localMesh[p][dd].faces[i] = localMesh[q][dd].faces[j])

\* A local view in which an edge is listed by two ranks, two edges have the same
\* owner and two edges have different owners.
C5_Witness ==
    /\ pc = "done"
    /\ \E p, q \in Ranks : p # q /\ Listed(p, 1) \cap Listed(q, 1) # {}
    /\ \E f, g \in UNION { Listed(r, 1) : r \in Ranks } :
          f # g /\ Plex2Rank(1, f) = Plex2Rank(1, g)
    /\ \E f, g \in UNION { Listed(r, 1) : r \in Ranks } :
          Plex2Rank(1, f) # Plex2Rank(1, g)

\* C6: for every dimension d below D, every face f and every two ranks p, q
\* that both list f: p is in the shared ranks of f on q if and only if q is in
\* the shared ranks of f on p.
C6_Symmetry ==
    pc = "done" =>
        \A dd \in 0 .. (D - 1) : \A p, q \in Ranks :
            \A i \in DOMAIN localMesh[p][dd].faces :
            \A j \in DOMAIN localMesh[q][dd].faces :
                localMesh[p][dd].faces[i] = localMesh[q][dd].faces[j] =>
                    ( q \in Range(SharedRanksAt(localMesh[p][dd], i))
                        <=> p \in Range(SharedRanksAt(localMesh[q][dd], j)) )

\* Two ranks list the same edge, each has the other in its shared ranks; and
\* some edge is listed by one rank only.
C6_Witness ==
    /\ pc = "done"
    /\ \E p, q \in Ranks : \E i \in DOMAIN localMesh[p][1].faces :
          /\ p # q
          /\ localMesh[p][1].faces[i] \in Listed(q, 1)
          /\ q \in Range(SharedRanksAt(localMesh[p][1], i))
    /\ \E p, q \in Ranks : p # q /\ Listed(p, 1) \ Listed(q, 1) # {}

\* The ghosts of rank r: what getGhostElements appended to the owned elements.
Ghosts(r) == SubSeq(work[r], Len(elems[r]) + 1, Len(work[r]))

\* C7: with overlap 1 on a manifold mesh the loop of getGhostElements ends
\* without a failed assertion, and the element list of every rank is its owned
\* elements followed by every element of another rank that shares a (D-1)-face
\* with one of them, each once, and nothing else.
C7_FirstLayer ==
    (overlap = 1 /\ Manifold /\ pc # "idle") =>
        /\ pc \in {"ghost", "done"}
        /\ ol = 2 =>
              \A r \in Ranks :
                  /\ SubSeq(work[r], 1, Len(elems[r])) = elems[r]
                  /\ NoDuplicates(work[r])
                  /\ Range(Ghosts(r)) = Reach(Range(elems[r]), 1) \ Range(elems[r])
        /\ pc = "done" =>
              (ol = 2 /\ \A r \in Ranks : localMesh[r][D].faces = work[r])

\* getLocalMesh(1) has returned where rank 0 holds (0,1,2) and rank 1 holds
\* (0,1,3): both list both triangles, the own one first.
C7_Witness ==
    /\ pc = "done"
    /\ overlap = 1
    /\ elems[0] = << <<0, 1, 2>> >>
    /\ elems[1] = << <<0, 1, 3>> >>
    /\ localMesh[0][D].faces = << <<0, 1, 2>>, <<0, 1, 3>> >>
    /\ localMesh[1][D].faces = << <<0, 1, 3>>, <<0, 1, 2>> >>

\* C8: with overlap k >= 2 on a manifold mesh the loop of getGhostElements ends
\* without a failed assertion on every rank, and the element list of every rank
\* is, without duplicates, the elements within k face-adjacency steps of an
\* owned element (a rank that holds every element gains nothing more).
C8_DeepOverlap ==
    (overlap >= 2 /\ Manifold /\ pc # "idle") =>
        /\ pc \in {"ghost", "done"}
        /\ pc = "done" =>
              \A r \in Ranks :
                  /\ NoDuplicates(work[r])
                  /\ Range(work[r]) = Reach(Range(elems[r]), overlap)

\* C9: in the dimension-D entry of a local view built with overlap >= 1 the
\* GID list is parallel to the element list, and the GID of every listed
\* element is the GID its owner lists for it.
C9_ElementGIDs ==
    (pc = "done" /\ overlap >= 1) =>
        \A r \in Ranks :
            /\ Len(localMesh[r][D].contiguousGIDs) = Len(localMesh[r][D].faces)
            /\ \A i \in DOMAIN localMesh[r][D].faces :
               \A q \in Ranks : \A j \in DOMAIN elems[q] :
                  localMesh[r][D].faces[i] = elems[q][j] =>
                     localMesh[r][D].contiguousGIDs[i] = localMesh[q][D].contiguousGIDs[j]

\* C10, as stated: the shared ranks of a face on rank q are the other ranks that
\* list the face, never q itself.
C10_RemoteOnly ==
    pc = "done" =>
        \A dd \in 0 .. (D - 1) : \A q \in Ranks :
            \A i \in DOMAIN localMesh[q][dd].faces :
                Range(SharedRanksAt(localMesh[q][dd], i)) =
                    { p \in Ranks \ {q} : localMesh[q][dd].faces[i] \in Listed(p, dd) }

\* C10, amended: the shared ranks of a face on rank q are, each once, the ranks
\* that list the face, q itself among them; a face no other rank lists has
\* the shared ranks [q].
C10_AllHolders ==
    pc = "done" =>
        \A dd \in 0 .. (D - 1) : \A q \in Ranks :
            \A i \in DOMAIN localMesh[q][dd].faces :
                /\ NoDuplicates(SharedRanksAt(localMesh[q][dd], i))
                /\ q \in Range(SharedRanksAt(localMesh[q][dd], i))
                /\ Range(SharedRanksAt(localMesh[q][dd], i)) =
                      { p \in Ranks : localMesh[q][dd].faces[i] \in Listed(p, dd) }

\* getLocalMesh(0) has returned where rank 0 holds (0,1,2) and rank 1 holds
\* (0,1,3): edge (0,1) has the shared ranks [0, 1] on both, edge (0,2), which
\* only rank 0 lists, has [0].
C10_Witness ==
    /\ pc = "done"
    /\ overlap = 0
    /\ elems[0] = << <<0, 1, 2>> >>
    /\ elems[1] = << <<0, 1, 3>> >>
    /\ \A q \in {0, 1} : \E i \in DOMAIN localMesh[q][1].faces :
          /\ localMesh[q][1].faces[i] = <<0, 1>>
          /\ SharedRanksAt(localMesh[q][1], i) = <<0, 1>>
    /\ \E i \in DOMAIN localMesh[0][1].faces :
          /\ localMesh[0][1].faces[i] = <<0, 2>>
          /\ SharedRanksAt(localMesh[0][1], i) = <<0>>

\* The ranks whose local dd-face list contains the face f.
Holders(dd, f) == { p \in Ranks : f \in Listed(p, dd) }

\* C11: for every dimension d in [0, D) and every face f in the local d-face
\* list of rank q, the shared-ranks entry of f on q lists exactly the ranks
\* whose local d-face list contains f, q among them, each rank once.
C11_SharedRanksAreHolders ==
    pc = "done" =>
        \A dd \in 0 .. (D - 1) : \A q \in Ranks :
            /\ Len(localMesh[q][dd].sharedRanksCount) = Len(localMesh[q][dd].faces)
            /\ SeqSum(localMesh[q][dd].sharedRanksCount) = Len(localMesh[q][dd].sharedRanks)
            /\ \A i \in DOMAIN localMesh[q][dd].faces :
                  /\ localMesh[q][dd].sharedRanksCount[i] =
                        Cardinality(Holders(dd, localMesh[q][dd].faces[i]))
                  /\ \A p \in Ranks :
                        Cardinality({ k \in DOMAIN SharedRanksAt(localMesh[q][dd], i) :
                                        SharedRanksAt(localMesh[q][dd], i)[k] = p })
                          = IF p \in Holders(dd, localMesh[q][dd].faces[i]) THEN 1 ELSE 0

\* A local view built with overlap 1 in which some vertex is listed by both
\* ranks and some edge by one rank only, with the shared ranks [0, 1] and [1].
C11_Witness ==
    /\ pc = "done"
    /\ overlap = 1
    /\ \E i \in DOMAIN localMesh[1][0].faces :
          /\ Holders(0, localMesh[1][0].faces[i]) = {0, 1}
          /\ SharedRanksAt(localMesh[1][0], i) = <<0, 1>>
    /\ \E i \in DOMAIN localMesh[1][1].faces :
          /\ Holders(1, localMesh[1][1].faces[i]) = {1}
          /\ SharedRanksAt(localMesh[1][1], i) = <<1>>

\* Some (D-1)-face has more than two witnessing elements in the whole mesh.
NonManifold ==
    \E e \in AllElems : \E f \in Downward(e, D - 1) :
        Cardinality({ w \in AllElems : f \in Downward(w, D - 1) }) > 2

\* C14: when some (D-1)-face has more than two witnessing elements, however
\* they are split over the ranks, getLocalMesh with overlap >= 1 ends with a
\* failed assertion in the first iteration of the ghost loop: it never gets
\* past that iteration and never returns a local view.
C14_NonManifoldFatal ==
    (NonManifold /\ overlap >= 1 /\ pc # "idle") =>
        \/ pc = "aborted"
        \/ pc = "ghost" /\ ol = 1

\* C15: in getGhostElements with overlap k >= 2 the count round trip to the
\* face owners (deleteDomainBoundaryFaces) runs in the first iteration only:
\* after any number of completed iterations it has run once.
C15_CountOnce ==
    (overlap >= 2 /\ pc \in {"ghost", "done"}) =>
        countRoundTrips = IF ol > 1 THEN 1 ELSE 0

\* The GIDs of dimension dd in the local face lists of all ranks.
GidSet(dd) == UNION { Range(localMesh[r][dd].contiguousGIDs) : r \in Ranks }

\* The distinct dd-faces in the local face lists of all ranks.
AllListed(dd) == UNION { Listed(r, dd) : r \in Ranks }

\* C17, as stated: for every dimension d in [0, D), vertices included, the GIDs
\* in the union of the local d-face lists are exactly 0 .. n-1, n the number of
\* distinct d-faces in that union.
C17_ContiguousAll ==
    pc = "done" =>
        \A dd \in 0 .. (D - 1) : GidSet(dd) = 0 .. (Cardinality(AllListed(dd)) - 1)

\* C17, amended: for every dimension d with 0 < d < D the GIDs in the union of
\* the local d-face lists are exactly 0 .. n-1; the GID of a vertex is its
\* vertex id, whatever ids the elements use.
C17_Contiguous ==
    pc = "done" =>
        /\ \A dd \in 1 .. (D - 1) :
              GidSet(dd) = 0 .. (Cardinality(AllListed(dd)) - 1)
        /\ \A r \in Ranks : \A i \in DOMAIN localMesh[r][0].faces :
              localMesh[r][0].contiguousGIDs[i] = localMesh[r][0].faces[i][1]

\* A local view of (1,3,4) and (3,4,5) on two ranks: five edges with the GIDs
\* 0 .. 4, four vertices with the GIDs 1, 3, 4, 5.
C17_Witness ==
    /\ pc = "done"
    /\ AllElems = { <<1, 3, 4>>, <<3, 4, 5>> }
    /\ \A r \in Ranks : elems[r] # << >>
    /\ GidSet(1) = 0 .. 4
    /\ GidSet(0) = {1, 3, 4, 5}

\* C18: for every dimension d in [0, D) the local d-face list of a rank holds
\* each d-face of each element of its element list exactly once and nothing
\* else, grouped by face owner in ascending rank and in simplex order within
\* a group.
C18_FaceList ==
    pc = "done" =>
        \A dd \in 0 .. (D - 1) : \A r \in Ranks :
            /\ NoDuplicates(localMesh[r][dd].faces)
            /\ Listed(r, dd) = UNION { Downward(work[r][i], dd) : i \in DOMAIN work[r] }
            /\ \A i, j \in DOMAIN localMesh[r][dd].faces :
                  i < j =>
                     \/ Plex2Rank(dd, localMesh[r][dd].faces[i])
                          < Plex2Rank(dd, localMesh[r][dd].faces[j])
                     \/ /\ Plex2Rank(dd, localMesh[r][dd].faces[i])
                             = Plex2Rank(dd, localMesh[r][dd].faces[j])
                        /\ SimplexLess(localMesh[r][dd].faces[i], localMesh[r][dd].faces[j])

\* The local view of the single triangle (0,1,2) on rank 0: three edges and
\* three vertices, those owned by rank 0 first.
C18_Witness ==
    /\ pc = "done"
    /\ elems[0] = << <<0, 1, 2>> >>
    /\ \A r \in Ranks \ {0} : elems[r] = << >>
    /\ localMesh[0][1].faces = << <<0, 2>>, <<0, 1>>, <<1, 2>> >>
    /\ localMesh[0][0].faces = << <<0>>, <<2>>, <<1>> >>

\* C19: after repartition() or repartitionByHash() on a mesh with element data,
\* on every rank the data has one row per element and the row at index i is the
\* row that was attached to the element now at index i (at construction the
\* row of element e is RowOf(e), and every call keeps it so).
C19_DataFollowsElements ==
    hasElementData =>
        \A r \in Ranks :
            /\ Len(elementData[r]) = Len(elems[r])
            /\ \A i \in DOMAIN elems[r] : elementData[r][i] = RowOf(elems[r][i])

\* A repartition() of a mesh with element data has left two elements on a rank
\* in an order that is not the order they were constructed in.
C19_Witness ==
    /\ hasElementData
    /\ lastOp = [op |-> "repartition", exchanged |-> TRUE]
    /\ \E r \in Ranks :
          /\ Len(elems[r]) >= 2
          /\ SimplexLess(elems[r][2], elems[r][1])
          /\ elementData[r][1] = RowOf(elems[r][1])

\* C16: when all ranks call getLocalMesh with the same overlap, every rank
\* goes through the same collectives whatever its elements are, so on a
\* manifold mesh the call never stops short of returning: in every state of
\* the call all ranks are at the next collective step of the ghost loop or of
\* the face extraction, or the call has returned on all of them.
C16_Returns ==
    (Manifold /\ pc # "idle") => pc \in {"ghost", "done"}

\* The faces of dimension dd that rank q owns among the listed ones.
OwnedBy(dd, q) == { f \in AllListed(dd) : Plex2Rank(dd, f) = q }

\* The GID the owner of the dd-face f computes for f: the vertex id for a
\* vertex; otherwise the number of faces owned by lower ranks plus the number
\* of faces of the same owner that come before f.
GidByOwner(dd, f) ==
    IF dd = 0 THEN f[1]
    ELSE SeqSum([i \in 1 .. Procs |->
                   IF i - 1 < Plex2Rank(dd, f)
                   THEN Cardinality(OwnedBy(dd, i - 1)) ELSE 0])
         + Cardinality({ g \in OwnedBy(dd, Plex2Rank(dd, f)) : SimplexLess(g, f) })

\* The shared-ranks entry the owner of the dd-face f computes for f: the ranks
\* that asked for f, in ascending order.
SharedByOwner(dd, f) ==
    SelectSeq([i \in 1 .. Procs |-> i - 1], LAMBDA p : p \in Holders(dd, f))

\* C21: for every dimension d in [0, D) and every rank, the GID list and the
\* shared-ranks table have one entry per face of the local d-face list, and
\* the i-th GID and the i-th shared-ranks entry are the ones the owner of the
\* i-th face computed for that very face.
C21_Alignment ==
    pc = "done" =>
        \A dd \in 0 .. (D - 1) : \A r \in Ranks :
            /\ Len(localMesh[r][dd].contiguousGIDs) = Len(localMesh[r][dd].faces)
            /\ Len(localMesh[r][dd].sharedRanksCount) = Len(localMesh[r][dd].faces)
            /\ \A i \in DOMAIN localMesh[r][dd].faces :
                  /\ localMesh[r][dd].contiguousGIDs[i] =
                        GidByOwner(dd, localMesh[r][dd].faces[i])
                  /\ SharedRanksAt(localMesh[r][dd], i) =
                        SharedByOwner(dd, localMesh[r][dd].faces[i])

\* A local view in which the replies cannot be told apart by position alone:
\* the vertex GIDs of rank 0 are not ascending, its edge GIDs skip a GID that
\* the owner gave to an edge of the other rank, and its edge list has an edge
\* with the shared ranks [0, 1] and an edge with the shared ranks [0].
C21_Witness ==
    /\ pc = "done"
    /\ \E i \in DOMAIN localMesh[0][0].faces :
          /\ i + 1 \in DOMAIN localMesh[0][0].faces
          /\ localMesh[0][0].contiguousGIDs[i + 1] < localMesh[0][0].contiguousGIDs[i]
    /\ \E i \in DOMAIN localMesh[0][1].faces :
          /\ i + 1 \in DOMAIN localMesh[0][1].faces
          /\ localMesh[0][1].contiguousGIDs[i + 1] > localMesh[0][1].contiguousGIDs[i] + 1
          /\ Plex2Rank(1, localMesh[0][1].faces[i]) =
                Plex2Rank(1, localMesh[0][1].faces[i + 1])
    /\ \E i, j \in DOMAIN localMesh[0][1].faces :
          /\ SharedRanksAt(localMesh[0][1], i) = <<0, 1>>
          /\ SharedRanksAt(localMesh[0][1], j) = <<0>>

(***************************************************************************)
(* Properties of getLocalMesh with vertex data (SpecVertex)                *)
(***************************************************************************)
\* C12: when vertex data is attached and every vertex id of the elements is
\* below the global vertex count vtxdist[procs], then after getLocalMesh has
\* returned the vertex list of every rank has one row for each of its entries,
\* and the row at the position of vertex v is the row stored for v at
\* construction: row v - vtxdist[o] of the rank o whose range of vtxdist holds
\* v.
C12_VertexData ==
    (pc = "done" /\ hasVertexData /\ ~VertexOutOfRange(elems)) =>
        \A r \in Ranks :
            /\ Len(localMesh[r][0].meshData) = Len(localMesh[r][0].faces)
            /\ \A i \in DOMAIN localMesh[r][0].faces :
                  \E o \in Ranks :
                      /\ vtxdist[o] <= localMesh[r][0].faces[i][1]
                      /\ localMesh[r][0].faces[i][1] < vtxdist[o + 1]
                      /\ localMesh[r][0].meshData[i] =
                            vertexData[o][localMesh[r][0].faces[i][1] - vtxdist[o] + 1]
                      /\ localMesh[r][0].meshData[i] =
                            VertexRow(localMesh[r][0].faces[i][1])

\* Three vertex rows on each rank, and getLocalMesh has returned: vertex 1,
\* stored on rank 0 although 1 modulo the number of ranks is 1, is in the
\* vertex list of both ranks with its row, and rank 0 has the row of vertex 3,
\* stored on rank 1.
C12_Witness ==
    /\ pc = "done"
    /\ hasVertexData
    /\ ~VertexOutOfRange(elems)
    /\ vtxdist = SortedDistribution([r \in Ranks |-> 3])
    /\ \A r \in Ranks :
          \E i \in DOMAIN localMesh[r][0].faces :
              /\ localMesh[r][0].faces[i] = <<1>>
              /\ localMesh[r][0].meshData[i] = VertexRow(1)
    /\ \E i \in DOMAIN localMesh[0][0].faces :
          /\ localMesh[0][0].faces[i] = <<3>>
          /\ localMesh[0][0].meshData[i] = VertexRow(3)

(***************************************************************************)
(* Properties of getLocalMesh with a boundary mesh (SpecBoundary)          *)
(***************************************************************************)
\* The elements of the boundary mesh, wherever they are stored.
BoundaryElems == UNION { Range(boundaryMesh.elems[r]) : r \in Ranks }

\* C13: when a boundary mesh of edges with element data is set, then after
\* getLocalMesh has returned the edge list of every rank has one row for each
\* of its entries: the data row of the edge when the edge is an element of the
\* boundary mesh, on whichever rank that element was stored, and the unset row
\* when it is not.
C13_BoundaryData ==
    (pc = "done" /\ boundaryMesh.exists /\ boundaryMesh.hasElementData) =>
        \A r \in Ranks :
            /\ Len(localMesh[r][D - 1].meshData) = Len(localMesh[r][D - 1].faces)
            /\ \A i \in DOMAIN localMesh[r][D - 1].faces :
                  localMesh[r][D - 1].meshData[i] =
                      IF localMesh[r][D - 1].faces[i] \in BoundaryElems
                      THEN RowOf(localMesh[r][D - 1].faces[i])
                      ELSE Unset

\* getLocalMesh has returned on a mesh whose boundary mesh holds the edges
\* (0,1) and (0,2): the edge list of rank 0 has (0,1), owned by rank 1, with its
\* row, (0,2) with its row, and an edge with the unset row.
C13_Witness ==
    /\ pc = "done"
    /\ boundaryMesh.exists
    /\ boundaryMesh.hasElementData
    /\ BoundaryElems = { <<0, 1>>, <<0, 2>> }
    /\ Plex2Rank(D - 1, <<0, 1>>) = 1
    /\ \E i, j, k \in DOMAIN localMesh[0][D - 1].faces :
          /\ localMesh[0][D - 1].faces[i] = <<0, 1>>
          /\ localMesh[0][D - 1].meshData[i] = RowOf(<<0, 1>>)
          /\ localMesh[0][D - 1].faces[j] = <<0, 2>>
          /\ localMesh[0][D - 1].meshData[j] = RowOf(<<0, 2>>)
          /\ localMesh[0][D - 1].meshData[k] = Unset

(***************************************************************************)
(* Properties of all calls together (Spec)                                 *)
(***************************************************************************)
\* C20: in every state reached by any sequence of repartition(),
\* repartitionByHash() and getLocalMesh() calls, a set flag implies that every
\* local element is on its hash owner; after repartition() the flag is clear,
\* and the next repartitionByHash() exchanges the elements again.
C20_Flag ==
    /\ [](\A r \in Ranks :
            isPartitionedByHash[r] =>
                \A i \in DOMAIN elems[r] : SimplexHash(elems[r][i]) % Procs = r)
    /\ [](lastOp.op = "repartition" => \A r \in Ranks : ~isPartitionedByHash[r])
    /\ [][ (lastOp.op = "repartition" /\ lastOp'.op = "repartitionByHash") =>
              lastOp'.exchanged ]_vars

\* repartitionByHash() has exchanged and a getLocalMesh(1) has returned: the
\* flag is set on a mesh with elements on two ranks.
C20_Witness ==
    /\ lastOp = [op |-> "repartitionByHash", exchanged |-> TRUE]
    /\ \A r \in Ranks : isPartitionedByHash[r]
    /\ pc = "done"
    /\ overlap = 1
    /\ \E p, q \in Ranks : p # q /\ elems[p] # << >> /\ elems[q] # << >>

\* The owned elements of rank r lead its element list in their stored order,
\* and their GIDs count on from the number of owned elements of the ranks
\* below r.
OwnedFirst(r) ==
    /\ Len(localMesh[r][D].faces) >= Len(elems[r])
    /\ SubSeq(localMesh[r][D].faces, 1, Len(elems[r])) = elems[r]
    /\ localMesh[r][D].contiguousGIDs =
          [j \in 1 .. Len(elems[r]) |->
              SeqSum([i \in 1 .. Procs |-> IF i - 1 < r THEN Len(elems[i - 1]) ELSE 0])
                + j - 1]

\* C22: in every state of the ghost loop, whatever the overlap and whatever
\* order repartitioning left the elements in, the element list of a rank
\* starts with its owned elements in their stored order; and when
\* getLocalMesh returns, the returned element list does so too, the j-th
\* owned element of rank r (from 0) has the GID (owned elements of the ranks
\* below r) + j, and the GIDs of the owned elements of all ranks are exactly
\* 0 .. N-1, N the number of elements of all ranks.
C22_OwnedFirst ==
    /\ [](pc = "ghost" =>
            \A r \in Ranks :
                /\ Len(work[r]) >= Len(elems[r])
                /\ SubSeq(work[r], 1, Len(elems[r])) = elems[r])
    /\ [][ (pc = "ghost" /\ pc' = "done") =>
              /\ \A r \in Ranks : OwnedFirst(r)'
              /\ (UNION { Range(localMesh[r][D].contiguousGIDs) : r \in Ranks })'
                    = 0 .. (SeqSum([i \in 1 .. Procs |-> Len(elems[i - 1])]) - 1) ]_vars

\* getLocalMesh(1) has returned after a repartition(): rank 0 owns two
\* elements that are not in ascending order, they lead its element list, a
\* ghost follows them, and the GIDs of rank 1 start at 2.
C22_Witness ==
    /\ pc = "done"
    /\ overlap = 1
    /\ lastOp.op = "repartition"
    /\ Len(elems[0]) = 2
    /\ SimplexLess(elems[0][2], elems[0][1])
    /\ Len(elems[1]) = 1
    /\ OwnedFirst(0)
    /\ OwnedFirst(1)
    /\ Len(localMesh[0][D].faces) = 3
    /\ localMesh[1][D].contiguousGIDs = <<2>>

=============================================================================
